---------------------------- MODULE Spec2Model ----------------------------
(***************************************************************************)
(* Model of the openEO Python client's response listing containers        *)
(* (openeo/rest/models/general.py) and of the process graph builder that  *)
(* the zonal statistics tests and the composite example exercise.         *)
(*                                                                         *)
(* A Python dict is a function from its keys to its values, a Python list *)
(* is a sequence, None is the string None.  A property access or a call   *)
(* leaves its outcome in ret: what was called, the exception it raised    *)
(* (if any) and the returned sequence.                                    *)
(***************************************************************************)
EXTENDS Integers, Sequences, FiniteSets, TLC

VARIABLES
    pc,                          \* "new": no listing yet; "ok": constructed; "raised": __init__ raised
    kind,                        \* which listing class the response is handed to
    response_data,               \* the response mapping; the listing's _data aliases it
    self_list,                   \* the listing's own list storage (it subclasses list)
    constructed_from,            \* the response mapping as it was when __init__ ran
    log_level,                   \* LogsResponse's log_level argument
    warn_on_federation_missing,  \* the constructor's flag
    warn_calls,                  \* resource names warn_on_missing was invoked with
    warnings,                    \* federation warnings emitted
    ret,                         \* outcome of the last call or property access
    graph,                       \* flat process graph of the current cube
    prev_graph,                  \* flat process graph of the cube the last operation was applied to
    last_op                      \* the last builder operation and its arguments

listing_vars == <<pc, kind, response_data, self_list, constructed_from, log_level,
                  warn_on_federation_missing, warn_calls, warnings, ret>>
graph_vars == <<graph, prev_graph, last_op>>
vars == <<pc, kind, response_data, self_list, constructed_from, log_level,
          warn_on_federation_missing, warn_calls, warnings, ret,
          graph, prev_graph, last_op>>

----------------------------------------------------------------------------
(* Bounds of the model *)

MaxItems == 2     \* longest primary array in the listing lifecycle specification
MaxLogs == 2      \* longest "logs" array in the log filtering specification
MaxLinks == 2     \* longest "links" array in the links specification
MaxOps == 3       \* builder operations chained after the load

----------------------------------------------------------------------------
(* Python values *)

None == "None"

Has(d, k) == k \in DOMAIN d

\* dict.get(k, default)
Get(d, k, default) == IF k \in DOMAIN d THEN d[k] ELSE default

\* d[k] = v
Put(d, k, v) == [x \in (DOMAIN d) \cup {k} |-> IF x = k THEN v ELSE d[x]]

\* del d[k]
Del(d, k) == [x \in (DOMAIN d) \ {k} |-> d[x]]

EmptyDict == [x \in {} |-> None]

\* bool(s) of an Optional[str]
Truthy(s) == s # None /\ s # ""

Reverse(s) == [i \in 1..Len(s) |-> s[Len(s) + 1 - i]]

RemoveAt(s, i) == SubSeq(s, 1, i - 1) \o SubSeq(s, i + 1, Len(s))

\* all sequences over S of length at most n
SeqsUpTo(S, n) == UNION {[1..m -> S] : m \in 0..n}

NoRet == [op |-> "none", raised |-> "none", value |-> <<>>]

----------------------------------------------------------------------------
(* Link *)

\* variant: type and title taken from each other's key
Link_from_dict_swapped(data) ==
    IF ~Has(data, "rel") \/ ~Has(data, "href")
    THEN [raised |-> "KeyError", value |-> <<>>]
    ELSE [raised |-> "none",
          value |-> <<[rel |-> data["rel"], href |-> data["href"],
                       type |-> Get(data, "title", None),
                       title |-> Get(data, "type", None)]>>]

\* variant: href read with .get, so only rel is required
Link_from_dict_lenient(data) ==
    IF ~Has(data, "rel")
    THEN [raised |-> "KeyError", value |-> <<>>]
    ELSE [raised |-> "none",
          value |-> <<[rel |-> data["rel"], href |-> Get(data, "href", None),
                       type |-> Get(data, "type", None),
                       title |-> Get(data, "title", None)]>>]

\* Link.from_dict: data["rel"] and data["href"] are subscripts, type and title are .get()
Link_from_dict(data) ==
    IF ~Has(data, "rel") \/ ~Has(data, "href")
    THEN [raised |-> "KeyError", value |-> <<>>]
    ELSE [raised |-> "none",
          value |-> <<[rel |-> data["rel"], href |-> data["href"],
                       type |-> Get(data, "type", None),
                       title |-> Get(data, "title", None)]>>]

RECURSIVE LinksOf(_)
\* [Link.from_dict(d) for d in ds]: the first failing entry aborts the comprehension
LinksOf(ds) ==
    IF ds = <<>> THEN [raised |-> "none", value |-> <<>>]
    ELSE LET head == Link_from_dict(Head(ds))
             rest == LinksOf(Tail(ds))
         IN IF head.raised # "none" THEN [raised |-> head.raised, value |-> <<>>]
            ELSE IF rest.raised # "none" THEN [raised |-> rest.raised, value |-> <<>>]
            ELSE [raised |-> "none", value |-> head.value \o rest.value]

\* the links property, the same in the four classes
links(data) == LinksOf(Get(data, "links", <<>>))

----------------------------------------------------------------------------
(* Log levels (openeo.rest.models.logs) *)

\* str.upper() on the level strings of the model
Upper(s) ==
    CASE s = "debug" -> "DEBUG"
      [] s = "info" -> "INFO"
      [] s = "warning" -> "WARNING"
      [] s = "error" -> "ERROR"
      [] OTHER -> s

FallbackRank == 10

normalize_log_level(level) ==
    LET u == Upper(level)
    IN CASE u = "ERROR" -> 40
         [] u = "WARNING" -> 30
         [] u = "INFO" -> 20
         [] u = "DEBUG" -> 10
         [] OTHER -> FallbackRank

\* LogEntry(log): a dict of its own with the keys and values of log
LogEntry(log) == [k \in DOMAIN log |-> log[k]]

----------------------------------------------------------------------------
(* Federation extension (openeo.rest.models.federation_extension) *)

\* FederationExtension(data).warn_on_missing(resource_name): the warnings it emits
warn_on_missing(data, resource_name) ==
    LET missing == Get(data, "federation:missing", <<>>)
    IN IF missing # <<>> THEN <<[resource |-> resource_name, missing |-> missing]>>
       ELSE <<>>

----------------------------------------------------------------------------
(* Listing classes *)

Kinds == {"collections", "processes", "jobs", "logs"}

\* the key each __init__ reads its array from
PrimaryKey(k) == k

\* variant: the resource name of one class copied to all
ResourceNameAllProcess(k) == "process listing"

\* the resource_name each __init__ passes to warn_on_missing
ResourceName(k) ==
    CASE k = "collections" -> "collection listing"
      [] k = "processes" -> "process listing"
      [] k = "jobs" -> "job listing"
      [] k = "logs" -> "log listing"

\* variant: the array read with .get(key, []), as LogsResponse does
ListingInitLenient(data, key) == [raised |-> "none", items |-> Get(data, key, <<>>)]

\* super().__init__(data[key]): the subscript raises when the key is absent,
\* list.__init__ copies the elements of the iterable into the list itself
ListingInit(data, key) ==
    IF Has(data, key) THEN [raised |-> "none", items |-> data[key]]
    ELSE [raised |-> "KeyError", items |-> <<>>]

CollectionListingResponse_init(data) == ListingInit(data, "collections")

ProcessListingResponse_init(data) == ListingInit(data, "processes")

JobListingResponse_init(data) == ListingInit(data, "jobs")

\* variant: strict comparison
accept_level_strict(level, min_level) ==
    normalize_log_level(level) > normalize_log_level(min_level)

\* accept_level of LogsResponse.__init__, log_level being its closure variable
accept_level(level, min_level) ==
    normalize_log_level(level) >= normalize_log_level(min_level)

\* variant: the back-end's "level" is not looked at
ClientSideFilterAlways(data, min_level) == Truthy(min_level)

\* the condition under which LogsResponse.__init__ filters on the client side
ClientSideFilter(data, min_level) ==
    /\ Truthy(min_level)
    /\ \/ ~Has(data, "level")
       \/ ~accept_level(data["level"], min_level)

LogsResponse_init(data, min_level) ==
    LET logs0 == Get(data, "logs", <<>>)
        Keep(log) == accept_level(Get(log, "level", None), min_level)
        logs1 == IF ClientSideFilter(data, min_level) THEN SelectSeq(logs0, Keep) ELSE logs0
    IN [raised |-> "none", items |-> [i \in 1..Len(logs1) |-> LogEntry(logs1[i])]]

\* variant: the contents read through to the retained mapping
SequenceContentsReadThrough == Get(response_data, PrimaryKey(kind), <<>>)

\* what iterating or indexing the listing yields: the list's own storage
SequenceContents == self_list

----------------------------------------------------------------------------
(* Construction *)

\* the common tail of the four __init__: store the list, then the federation check
Constructed(init, level, warn) ==
    /\ pc = "new"
    /\ log_level' = level
    /\ warn_on_federation_missing' = warn
    /\ constructed_from' = response_data
    /\ IF init.raised # "none"
       THEN /\ pc' = "raised"
            /\ ret' = [op |-> "__init__", raised |-> init.raised, value |-> <<>>]
            /\ UNCHANGED <<self_list, warn_calls, warnings>>
       ELSE /\ pc' = "ok"
            /\ self_list' = init.items
            /\ ret' = [op |-> "__init__", raised |-> "none", value |-> <<>>]
            /\ IF warn
               THEN /\ warn_calls' = Append(warn_calls, ResourceName(kind))
                    /\ warnings' = warnings \o warn_on_missing(response_data, ResourceName(kind))
               ELSE UNCHANGED <<warn_calls, warnings>>
    /\ UNCHANGED <<kind, response_data>>
    /\ UNCHANGED graph_vars

ConstructCollectionListing(warn) ==
    /\ kind = "collections"
    /\ Constructed(CollectionListingResponse_init(response_data), None, warn)

ConstructProcessListing(warn) ==
    /\ kind = "processes"
    /\ Constructed(ProcessListingResponse_init(response_data), None, warn)

ConstructJobListing(warn) ==
    /\ kind = "jobs"
    /\ Constructed(JobListingResponse_init(response_data), None, warn)

LogLevelArgs == {None, "", "info", "warning", "ERROR"}

ConstructLogsResponse(level, warn) ==
    /\ kind = "logs"
    /\ Constructed(LogsResponse_init(response_data, level), level, warn)

----------------------------------------------------------------------------
(* Property accesses on a constructed listing *)

\* listing.links
AccessLinks ==
    /\ pc = "ok"
    /\ LET r == links(response_data)
       IN ret' = [op |-> "links", raised |-> r.raised, value |-> r.value]
    /\ UNCHANGED <<pc, kind, response_data, self_list, constructed_from, log_level,
                   warn_on_federation_missing, warn_calls, warnings>>
    /\ UNCHANGED graph_vars

\* listing.ext_federation: a FederationExtension over _data, nothing else
AccessExtFederation ==
    /\ pc = "ok"
    /\ ret' = [op |-> "ext_federation", raised |-> "none",
               value |-> Get(response_data, "federation:missing", <<>>)]
    /\ UNCHANGED <<pc, kind, response_data, self_list, constructed_from, log_level,
                   warn_on_federation_missing, warn_calls, warnings>>
    /\ UNCHANGED graph_vars

\* list(listing), and LogsResponse.logs which returns self
AccessSequence ==
    /\ pc = "ok"
    /\ ret' = [op |-> "sequence", raised |-> "none", value |-> SequenceContents]
    /\ UNCHANGED <<pc, kind, response_data, self_list, constructed_from, log_level,
                   warn_on_federation_missing, warn_calls, warnings>>
    /\ UNCHANGED graph_vars

\* Link.from_dict called on a mapping
LinkFromDict(d) ==
    /\ LET r == Link_from_dict(d)
       IN ret' = [op |-> "from_dict", raised |-> r.raised, value |-> r.value, arg |-> d]
    /\ UNCHANGED <<pc, kind, response_data, self_list, constructed_from, log_level,
                   warn_on_federation_missing, warn_calls, warnings>>
    /\ UNCHANGED graph_vars

----------------------------------------------------------------------------
(* Later mutations of the mapping the listing was built from.  The listing  *)
(* holds the mapping itself in _data, so its properties see them.           *)

\* response_data[key] = arr
ReplaceArray(arr) ==
    /\ pc = "ok"
    /\ response_data' = Put(response_data, PrimaryKey(kind), arr)
    /\ ret' = NoRet
    /\ UNCHANGED <<pc, kind, self_list, constructed_from, log_level,
                   warn_on_federation_missing, warn_calls, warnings>>
    /\ UNCHANGED graph_vars

\* response_data[key].append(e)
AppendToArray(e) ==
    /\ pc = "ok"
    /\ Has(response_data, PrimaryKey(kind))
    /\ Len(response_data[PrimaryKey(kind)]) < MaxItems
    /\ response_data' = Put(response_data, PrimaryKey(kind),
                            Append(response_data[PrimaryKey(kind)], e))
    /\ ret' = NoRet
    /\ UNCHANGED <<pc, kind, self_list, constructed_from, log_level,
                   warn_on_federation_missing, warn_calls, warnings>>
    /\ UNCHANGED graph_vars

\* del response_data[key][i]
RemoveFromArray(i) ==
    /\ pc = "ok"
    /\ Has(response_data, PrimaryKey(kind))
    /\ i \in 1..Len(response_data[PrimaryKey(kind)])
    /\ response_data' = Put(response_data, PrimaryKey(kind),
                            RemoveAt(response_data[PrimaryKey(kind)], i))
    /\ ret' = NoRet
    /\ UNCHANGED <<pc, kind, self_list, constructed_from, log_level,
                   warn_on_federation_missing, warn_calls, warnings>>
    /\ UNCHANGED graph_vars

\* response_data[key].reverse()
ReorderArray ==
    /\ pc = "ok"
    /\ Has(response_data, PrimaryKey(kind))
    /\ Len(response_data[PrimaryKey(kind)]) > 1
    /\ response_data' = Put(response_data, PrimaryKey(kind),
                            Reverse(response_data[PrimaryKey(kind)]))
    /\ ret' = NoRet
    /\ UNCHANGED <<pc, kind, self_list, constructed_from, log_level,
                   warn_on_federation_missing, warn_calls, warnings>>
    /\ UNCHANGED graph_vars

\* response_data[k] = v for another key
ChangeOtherKey(k, v) ==
    /\ pc = "ok"
    /\ k # PrimaryKey(kind)
    /\ response_data' = Put(response_data, k, v)
    /\ ret' = NoRet
    /\ UNCHANGED <<pc, kind, self_list, constructed_from, log_level,
                   warn_on_federation_missing, warn_calls, warnings>>
    /\ UNCHANGED graph_vars

\* del response_data[k]
DeleteKey(k) ==
    /\ pc = "ok"
    /\ Has(response_data, k)
    /\ response_data' = Del(response_data, k)
    /\ ret' = NoRet
    /\ UNCHANGED <<pc, kind, self_list, constructed_from, log_level,
                   warn_on_federation_missing, warn_calls, warnings>>
    /\ UNCHANGED graph_vars

----------------------------------------------------------------------------
(* Process graph builder.  A cube is its flat process graph: the nodes in   *)
(* the order they were added, the last one being the result node.           *)

FromNode(id) == [from_node |-> id]

FromParameter(name) == [from_parameter |-> name]

Literal(v) == [value |-> v]

Callback(nodes) == [process_graph |-> nodes]

\* the marker of a keyword argument that was not given
UNSET == [unset |-> TRUE]

\* variant: the counter is not advanced
NodeIdFirst(process_id, g) == [process |-> process_id, n |-> 1]

\* node identifiers: the process name and how many nodes of that process there are
NodeId(process_id, g) ==
    [process |-> process_id,
     n |-> 1 + Cardinality({i \in 1..Len(g) : g[i].process_id = process_id})]

\* the result node of a cube
ResultId(g) == g[Len(g)].id

\* a graph with one more node, which becomes its result node
AddNode(g, process_id, arguments) ==
    [i \in 1..Len(g) |-> [g[i] EXCEPT !.result = FALSE]]
    \o <<[id |-> NodeId(process_id, g), process_id |-> process_id,
          arguments |-> arguments, result |-> TRUE]>>

\* variant: unset arguments are emitted
KeepUnset(arguments) == arguments

\* arguments left UNSET are not part of the node
DropUnset(arguments) ==
    [k \in {x \in DOMAIN arguments : arguments[x] # UNSET} |-> arguments[k]]

\* openeo.processes.mean(data, ignore_nodata=UNSET): a "mean" node over its argument
processes_mean(data) ==
    [id |-> NodeId("mean", <<>>), process_id |-> "mean",
     arguments |-> DropUnset([data |-> data, ignore_nodata |-> UNSET]), result |-> TRUE]

\* ProcessBuilder.mean(): the builder's method is the function applied to the builder
ProcessBuilder_mean(x) == processes_mean(x)

\* a callback given as a process name: that process applied to the parent's "data" parameter
CallbackFromName(name) ==
    <<[id |-> NodeId(name, <<>>), process_id |-> name,
       arguments |-> [data |-> FromParameter("data")], result |-> TRUE]>>

\* the builder a callable is called with: the parent's "data" parameter
CallableArgument == FromParameter("data")

\* a callback given as a callable: the node the call built
CallbackFromCallable(built) == <<built>>

ReducerForms == {"name", "builtin", "lambda"}

\* the mean reducer as the test passes it: "mean", openeo.processes.mean, lambda x: x.mean()
ReducerGraph(reducer) ==
    CASE reducer = "name" -> CallbackFromName("mean")
      [] reducer = "builtin" -> CallbackFromCallable(processes_mean(CallableArgument))
      [] reducer = "lambda" -> CallbackFromCallable(ProcessBuilder_mean(CallableArgument))

GeometryKinds == {"inline", "path", "parameter"}

InlinePolygon == [type |-> "Polygon"]

GeometryPath == "/some/path/to/GeometryCollection.geojson"

\* variant: a path is passed on as a literal
GeometrySourceInlined(g, geometries) ==
    CASE geometries = "inline" -> [graph |-> g, argument |-> Literal(InlinePolygon)]
      [] geometries = "path" -> [graph |-> g, argument |-> Literal(GeometryPath)]
      [] geometries = "parameter" -> [graph |-> g, argument |-> FromParameter("polygon")]

\* the geometries argument: inline geometry is a literal, a path becomes a
\* read_vector node that is referenced, a Parameter is a parameter reference
GeometrySource(g, geometries) ==
    CASE geometries = "inline" -> [graph |-> g, argument |-> Literal(InlinePolygon)]
      [] geometries = "path" ->
            LET g1 == AddNode(g, "read_vector", [filename |-> Literal(GeometryPath)])
            IN [graph |-> g1, argument |-> FromNode(ResultId(g1))]
      [] geometries = "parameter" -> [graph |-> g, argument |-> FromParameter("polygon")]

\* connection.load_collection / session.imagecollection
load_collection(name) == AddNode(<<>>, "load_collection", [id |-> Literal(name)])

\* filter_bbox / bbox_filter
filter_bbox(g) ==
    AddNode(g, "filter_bbox", [data |-> FromNode(ResultId(g)), extent |-> Literal("bbox")])

\* filter_temporal / date_range_filter
filter_temporal(g) ==
    AddNode(g, "filter_temporal", [data |-> FromNode(ResultId(g)), extent |-> Literal("dates")])

\* max_time: reduce the temporal dimension with max
max_time(g) ==
    AddNode(g, "reduce_dimension",
            [data |-> FromNode(ResultId(g)), dimension |-> Literal("t"),
             reducer |-> Callback(CallbackFromName("max"))])

\* mask with another cube of the same chain: two parent references
mask(g, other) ==
    AddNode(g, "mask", [data |-> FromNode(ResultId(g)), mask |-> FromNode(other)])

aggregate_spatial(g, geometries, reducer) ==
    LET src == GeometrySource(g, geometries)
    IN AddNode(src.graph, "aggregate_spatial",
               [data |-> FromNode(ResultId(g)), geometries |-> src.argument,
                reducer |-> Callback(ReducerGraph(reducer))])

polygonal_mean_timeseries(g, polygon) == aggregate_spatial(g, polygon, "name")

\* builder operations applied to the cube so far
OpsDone(g) == Cardinality({i \in 1..Len(g) : g[i].process_id # "read_vector"}) - 1

Applied(g, op) ==
    /\ graph # <<>>
    /\ OpsDone(graph) < MaxOps
    /\ graph' = g
    /\ prev_graph' = graph
    /\ last_op' = op
    /\ UNCHANGED listing_vars

LoadCollection ==
    /\ graph = <<>>
    /\ graph' = load_collection("S2")
    /\ prev_graph' = <<>>
    /\ last_op' = [op |-> "load_collection"]
    /\ UNCHANGED listing_vars

FilterBbox == Applied(filter_bbox(graph), [op |-> "filter_bbox"])

FilterTemporal == Applied(filter_temporal(graph), [op |-> "filter_temporal"])

MaxTime == Applied(max_time(graph), [op |-> "max_time"])

Mask(i) ==
    /\ i \in 1..Len(graph)
    /\ Applied(mask(graph, graph[i].id), [op |-> "mask"])

AggregateSpatial(geometries, reducer) ==
    Applied(aggregate_spatial(graph, geometries, reducer),
            [op |-> "aggregate_spatial", geometries |-> geometries, reducer |-> reducer])

PolygonalMeanTimeseries(polygon) ==
    Applied(polygonal_mean_timeseries(graph, polygon),
            [op |-> "polygonal_mean_timeseries", geometries |-> polygon, reducer |-> "name"])

----------------------------------------------------------------------------
(* Inputs *)

\* an optional value: no value, or one of S
Opt(S) == {{}} \cup {{v} : v \in S}

\* a dict holding the keys of opts that have a value
DictOf(opts) == [k \in {x \in DOMAIN opts : opts[x] # {}} |-> CHOOSE v \in opts[k] : TRUE]

\* link mappings: every key present or not
LinkDicts ==
    {DictOf([rel |-> r, href |-> h, type |-> t, title |-> ti]) :
        r \in Opt({"self"}), h \in Opt({"https://oeo.test/"}),
        t \in Opt({"application/json"}), ti \in Opt({"Home"})}

\* entries of a "links" array: complete ones with any optional keys, and bare incomplete ones
LinkEntries ==
    {d \in LinkDicts : (Has(d, "rel") /\ Has(d, "href")) \/ DOMAIN d \subseteq {"rel", "href"}}

GoodLink == [rel |-> "next", href |-> "https://oeo.test/?page=2"]

\* elements of a primary array in the lifecycle specification
Items == {[id |-> 1, level |-> "info"], [id |-> 2, level |-> "error"]}

EntryLevels == {"debug", "info", "warning", "error", "trace"}

\* "logs" arrays: the entry at position i has id i, and a level or none
LogArrays ==
    UNION {{[i \in 1..m |-> DictOf([id |-> {i}, level |-> lv[i]])] : lv \in [1..m -> Opt(EntryLevels)]} :
              m \in 0..MaxLogs}

TopLevels == {"debug", "warning", "ERROR"}

FederationMissing == <<"backend2">>

\* the response mapping with these optional entries
Response(key, arr, ls, fm, lv) ==
    LET d1 == IF arr = {} THEN EmptyDict ELSE Put(EmptyDict, key, CHOOSE v \in arr : TRUE)
        d2 == IF ls = {} THEN d1 ELSE Put(d1, "links", CHOOSE v \in ls : TRUE)
        d3 == IF fm = {} THEN d2 ELSE Put(d2, "federation:missing", CHOOSE v \in fm : TRUE)
    IN IF lv = {} THEN d3 ELSE Put(d3, "level", CHOOSE v \in lv : TRUE)

InitListingVars ==
    /\ pc = "new"
    /\ self_list = <<>>
    /\ constructed_from = EmptyDict
    /\ log_level = None
    /\ warn_on_federation_missing = FALSE
    /\ warn_calls = <<>>
    /\ warnings = <<>>
    /\ ret = NoRet

InitGraphVars ==
    /\ graph = <<>>
    /\ prev_graph = <<>>
    /\ last_op = [op |-> "none"]

\* a logs response, with or without "logs" and the back-end's "level"
InitLogs ==
    /\ kind = "logs"
    /\ \E arr \in Opt(LogArrays), lv \in Opt(TopLevels) :
          response_data = Response("logs", arr, {}, {}, lv)
    /\ InitListingVars
    /\ InitGraphVars

\* a response for any of the four listings, any of its keys absent
InitListing ==
    /\ kind \in Kinds
    /\ \E arr \in Opt(SeqsUpTo(Items, MaxItems)), ls \in Opt({<<GoodLink>>}),
          fm \in Opt({FederationMissing}),
          lv \in (IF kind = "logs" THEN Opt({"warning"}) ELSE {{}}) :
          response_data = Response(PrimaryKey(kind), arr, ls, fm, lv)
    /\ InitListingVars
    /\ InitGraphVars

\* a response for any of the four listings with a "links" array, or without
InitLinks ==
    /\ kind \in Kinds
    /\ \E ls \in Opt(SeqsUpTo(LinkEntries, MaxLinks)) :
          response_data = Response(PrimaryKey(kind), {<<>>}, ls, {}, {})
    /\ InitListingVars
    /\ InitGraphVars

Construct ==
    \/ \E warn \in BOOLEAN : ConstructCollectionListing(warn)
    \/ \E warn \in BOOLEAN : ConstructProcessListing(warn)
    \/ \E warn \in BOOLEAN : ConstructJobListing(warn)
    \/ \E level \in LogLevelArgs, warn \in BOOLEAN : ConstructLogsResponse(level, warn)

NextLogs ==
    \/ \E level \in LogLevelArgs, warn \in BOOLEAN : ConstructLogsResponse(level, warn)
    \/ AccessSequence

NextListing ==
    \/ Construct
    \/ AccessLinks
    \/ AccessExtFederation
    \/ AccessSequence
    \/ \E arr \in SeqsUpTo(Items, MaxItems) : ReplaceArray(arr)
    \/ \E e \in Items : AppendToArray(e)
    \/ \E i \in 1..MaxItems : RemoveFromArray(i)
    \/ ReorderArray
    \/ ChangeOtherKey("links", <<GoodLink>>)
    \/ ChangeOtherKey("federation:missing", FederationMissing)
    \/ ChangeOtherKey("level", "warning")
    \/ \E k \in {"links", "federation:missing", "level"} \cup Kinds : DeleteKey(k)

NextLinks ==
    \/ Construct
    \/ AccessLinks
    \/ \E d \in LinkDicts : LinkFromDict(d)

NextGraph ==
    \/ LoadCollection
    \/ FilterBbox
    \/ FilterTemporal
    \/ MaxTime
    \/ \E i \in 1..(2 * MaxOps + 1) : Mask(i)
    \/ \E geometries \in GeometryKinds, reducer \in ReducerForms :
          AggregateSpatial(geometries, reducer)
    \/ \E polygon \in {"inline", "path"} : PolygonalMeanTimeseries(polygon)

\* a connection with no cube yet
InitGraph ==
    /\ kind = "collections"
    /\ response_data = EmptyDict
    /\ InitListingVars
    /\ InitGraphVars

\* chains of builder operations
SpecGraph == InitGraph /\ [][NextGraph]_vars

\* log level filtering of LogsResponse
SpecLogs == InitLogs /\ [][NextLogs]_vars

\* construction, later mutation of the mapping, and property access
SpecListing == InitListing /\ [][NextListing]_vars

\* Link.from_dict and the links property
SpecLinks == InitLinks /\ [][NextLinks]_vars

----------------------------------------------------------------------------
(* Properties of the listings *)

\* the severity LogsResponse ranks an entry with: a missing "level" is None
Severity(entry) == normalize_log_level(Get(entry, "level", None))

\* the entries of logs at least as severe as min_level, in their order
AtLeast(logs, min_level) ==
    LET Keep(entry) == Severity(entry) >= normalize_log_level(min_level)
    IN SelectSeq(logs, Keep)

\* the back-end's "level" of a mapping satisfies min_level
LevelSatisfies(data, min_level) ==
    /\ Has(data, "level")
    /\ normalize_log_level(data["level"]) >= normalize_log_level(min_level)

\* C1: when a log_level is requested and the response has no "level" or one
\* that does not satisfy it, the LogsResponse holds exactly the entries of
\* "logs" whose severity is at least that of log_level, in their order; an
\* entry without "level" is ranked by the same comparison.
C1_FilterRetainsExactly ==
    (pc = "ok" /\ kind = "logs" /\ log_level # None /\ ~LevelSatisfies(response_data, log_level))
    => LET logs == Get(response_data, "logs", <<>>)
       IN /\ \A i \in 1..Len(logs) :
                (Severity(logs[i]) >= normalize_log_level(log_level))
                <=> (\E j \in 1..Len(self_list) : self_list[j] = logs[i])
          /\ \A j \in 1..Len(self_list) : \E i \in 1..Len(logs) : self_list[j] = logs[i]
          /\ \A j, k \in 1..Len(self_list) : j < k => self_list[j]["id"] < self_list[k]["id"]

C1_Witness ==
    /\ pc = "ok" /\ kind = "logs" /\ log_level = "info"
    /\ ~LevelSatisfies(response_data, log_level)
    /\ Has(response_data, "logs")
    /\ Len(response_data["logs"]) = 2
    /\ ~Has(response_data["logs"][1], "level")
    /\ self_list = <<response_data["logs"][2]>>

\* C2: when the response's "level" satisfies the requested log_level, the
\* LogsResponse holds one entry per element of "logs", in order, also those
\* whose own level is below log_level.
C2_NoClientSideDrop ==
    (pc = "ok" /\ kind = "logs" /\ log_level # None /\ LevelSatisfies(response_data, log_level))
    => LET logs == Get(response_data, "logs", <<>>)
       IN /\ Len(self_list) = Len(logs)
          /\ \A i \in 1..Len(logs) : self_list[i] = logs[i]

C2_Witness ==
    /\ pc = "ok" /\ kind = "logs" /\ log_level = "info"
    /\ LevelSatisfies(response_data, log_level)
    /\ Len(self_list) = 2
    /\ Severity(self_list[1]) < normalize_log_level(log_level)

\* C3 as claimed: an absent primary array key makes each of the four
\* constructors raise; absent "links" never raises and reads as no links.
C3_Original ==
    /\ (pc # "new" /\ ~Has(constructed_from, PrimaryKey(kind)))
       => (pc = "raised" /\ ret.raised = "KeyError")
    /\ (ret.op = "links" /\ ~Has(response_data, "links"))
       => (ret.raised = "none" /\ ret.value = <<>>)

\* C3 amended: an absent primary array key makes the collection, process and
\* job constructors raise KeyError, while LogsResponse reads an absent "logs"
\* as no entries; no constructor raises otherwise, and absent "links" reads
\* as no links.
C3_MissingPrimaryKey ==
    /\ (pc # "new" /\ ~Has(constructed_from, PrimaryKey(kind)))
       => IF kind = "logs"
          THEN pc = "ok" /\ self_list = <<>>
          ELSE pc = "raised" /\ ret = [op |-> "__init__", raised |-> "KeyError", value |-> <<>>]
    /\ (pc = "raised") => (kind # "logs" /\ ~Has(constructed_from, PrimaryKey(kind)))
    /\ (ret.op = "links" /\ ~Has(response_data, "links"))
       => (ret.raised = "none" /\ ret.value = <<>>)

C3_Witness ==
    /\ pc = "raised" /\ kind = "collections"
    /\ ~Has(response_data, "collections")
    /\ ~Has(response_data, "links")

\* C4 as claimed: the contents of every listing are the elements of the
\* primary array as it was at construction, whatever happens to the mapping.
C4_Original ==
    pc = "ok" => SequenceContents = Get(constructed_from, PrimaryKey(kind), <<>>)

\* C4 amended: the contents of a collection, process or job listing are the
\* elements of the primary array as it was at construction; those of a
\* LogsResponse are the entries of that array its level filter retained at
\* construction (all of them without a filter); later changes of the mapping
\* change neither.
C4_Snapshot ==
    pc = "ok" =>
        LET arr == Get(constructed_from, PrimaryKey(kind), <<>>)
        IN SequenceContents =
              IF kind = "logs" /\ Truthy(log_level) /\ ~LevelSatisfies(constructed_from, log_level)
              THEN AtLeast(arr, log_level)
              ELSE arr

C4_Witness ==
    /\ pc = "ok" /\ kind = "processes"
    /\ ret.op = "sequence" /\ Len(ret.value) = 2
    /\ Has(response_data, "processes")
    /\ response_data["processes"] = <<ret.value[2]>>

\* C5: when every entry of "links" has "rel" and "href", the links property
\* gives one Link per entry, in order, with the entry's rel and href, and
\* its type and title or None where the entry has none.
C5_LinksPreserved ==
    (ret.op = "links" /\ Has(response_data, "links")
        /\ \A i \in 1..Len(response_data["links"]) :
              Has(response_data["links"][i], "rel") /\ Has(response_data["links"][i], "href"))
    => LET ls == response_data["links"]
       IN /\ ret.raised = "none"
          /\ Len(ret.value) = Len(ls)
          /\ \A i \in 1..Len(ls) :
                /\ DOMAIN ret.value[i] = {"rel", "href", "type", "title"}
                /\ ret.value[i].rel = ls[i]["rel"]
                /\ ret.value[i].href = ls[i]["href"]
                /\ ret.value[i].type = (IF Has(ls[i], "type") THEN ls[i]["type"] ELSE None)
                /\ ret.value[i].title = (IF Has(ls[i], "title") THEN ls[i]["title"] ELSE None)

C5_Witness ==
    /\ ret.op = "links" /\ kind = "jobs"
    /\ Len(ret.value) = 2
    /\ ret.value[1].type = None /\ ret.value[1].title # None
    /\ ret.value[2].type # None /\ ret.value[2].title = None

\* C6: a constructed listing has invoked warn_on_missing once, with the
\* resource name of its class, when warn_on_federation_missing was true and
\* never when it was false; no property access adds an invocation, and a
\* listing emits at most one federation warning.
C6_WarnOnceAtConstruction ==
    /\ pc = "ok" =>
          warn_calls = IF warn_on_federation_missing
                       THEN <<CASE kind = "collections" -> "collection listing"
                                [] kind = "processes" -> "process listing"
                                [] kind = "jobs" -> "job listing"
                                [] kind = "logs" -> "log listing">>
                       ELSE <<>>
    /\ pc # "ok" => (warn_calls = <<>> /\ warnings = <<>>)
    /\ Len(warnings) <= 1
    /\ \A i \in 1..Len(warnings) : warnings[i].resource = warn_calls[i]

C6_Witness ==
    /\ pc = "ok" /\ kind = "jobs" /\ warn_on_federation_missing
    /\ Len(warnings) = 1
    /\ ret.op = "ext_federation"
    /\ ~Has(response_data, "federation:missing")

\* C7: Link.from_dict raises KeyError exactly when "rel" or "href" is absent
\* and gives a Link otherwise, whatever other keys there are.
C7_FromDictRequiresRelHref ==
    ret.op = "from_dict" =>
        /\ (ret.raised = "KeyError") <=> (~Has(ret.arg, "rel") \/ ~Has(ret.arg, "href"))
        /\ ret.raised \in {"none", "KeyError"}
        /\ (ret.raised = "none") <=> (Len(ret.value) = 1)

C7_Witness ==
    /\ ret.op = "from_dict" /\ ret.raised = "KeyError"
    /\ DOMAIN ret.arg = {"rel", "type", "title"}

----------------------------------------------------------------------------
(* Properties of the process graph builder *)

IsSpatialAggregation == last_op.op \in {"aggregate_spatial", "polygonal_mean_timeseries"}

WithoutSource(g, i, geometries) ==
    LET rest == RemoveAt(g, i)
    IN [rest EXCEPT ![Len(rest)].arguments.geometries = geometries]

\* C9: geometry given as a path adds a read_vector node which the
\* aggregation node references; the graph for a path and the graph for
\* inline geometry on the same cube differ in exactly that node and the
\* reference to it; a Parameter is a parameter reference, with no such node.
C9_PathGeometryReadVector ==
    IsSpatialAggregation =>
        LET n == Len(graph)
            agg == graph[n]
            inline == aggregate_spatial(prev_graph, "inline", last_op.reducer)
        IN /\ agg.process_id = "aggregate_spatial"
           /\ last_op.geometries = "path" =>
                 /\ n = Len(prev_graph) + 2
                 /\ graph[n - 1].process_id = "read_vector"
                 /\ graph[n - 1].arguments = [filename |-> [value |-> GeometryPath]]
                 /\ agg.arguments.geometries = [from_node |-> graph[n - 1].id]
                 /\ WithoutSource(graph, n - 1, [value |-> InlinePolygon]) = inline
           /\ last_op.geometries = "inline" =>
                 /\ n = Len(prev_graph) + 1
                 /\ agg.arguments.geometries = [value |-> InlinePolygon]
                 /\ graph = inline
           /\ last_op.geometries = "parameter" =>
                 /\ n = Len(prev_graph) + 1
                 /\ agg.arguments.geometries = [from_parameter |-> "polygon"]
                 /\ graph[n - 1].process_id # "read_vector" \/ graph[n - 1] = prev_graph[n - 1]
                 /\ [graph EXCEPT ![n].arguments.geometries = [value |-> InlinePolygon]] = inline

C9_Witness ==
    /\ last_op.op = "polygonal_mean_timeseries" /\ last_op.geometries = "path"
    /\ Len(graph) = 4
    /\ graph[2].process_id = "filter_bbox"
    /\ graph[3].id = [process |-> "read_vector", n |-> 1]
    /\ graph[4].arguments.data = [from_node |-> graph[2].id]

Arguments(node, tag) ==
    {node.arguments[k] : k \in {x \in DOMAIN node.arguments : tag \in DOMAIN node.arguments[x]}}

FromNodeRefs(node) == {a.from_node : a \in Arguments(node, "from_node")}

FromParameterRefs(node) == {a.from_parameter : a \in Arguments(node, "from_parameter")}

CallbackGraphs(node) == {a.process_graph : a \in Arguments(node, "process_graph")}

NodeIds(g) == {g[i].id : i \in 1..Len(g)}

UniqueIds(g) == \A i, j \in 1..Len(g) : i # j => g[i].id # g[j].id

OneResult(g) == Cardinality({i \in 1..Len(g) : g[i].result}) = 1

\* the parameters a reducer callback is given by the node that holds it
CallbackParameters == {"data", "context"}

\* the nodes reachable from the nodes ids by following from_node, in at most n steps
RECURSIVE Reach(_, _, _)
Reach(g, ids, n) ==
    IF n = 0 THEN ids
    ELSE Reach(g, ids \cup UNION {FromNodeRefs(g[i]) : i \in {x \in 1..Len(g) : g[x].id \in ids}}, n - 1)

Acyclic(g) == \A i \in 1..Len(g) : g[i].id \notin Reach(g, FromNodeRefs(g[i]), Len(g))

\* a graph whose parameter references are all among params
Closed(g, params) ==
    /\ UniqueIds(g)
    /\ OneResult(g)
    /\ Acyclic(g)
    /\ \A i \in 1..Len(g) :
          /\ FromNodeRefs(g[i]) \subseteq NodeIds(g)
          /\ FromParameterRefs(g[i]) \subseteq params

WellFormed(g, params) ==
    /\ Closed(g, params)
    /\ \A i \in 1..Len(g) : \A cb \in CallbackGraphs(g[i]) : Closed(cb, CallbackParameters)

\* each operation added one node, and a read_vector node for a path, to the cube it was applied to
OneNodeAppended ==
    /\ Len(graph) = Len(prev_graph) + 1
                    + (IF IsSpatialAggregation /\ last_op.geometries = "path" THEN 1 ELSE 0)
    /\ \A i \in 1..Len(prev_graph) : graph[i] = [prev_graph[i] EXCEPT !.result = FALSE]

=============================================================================
